---- MODULE Spec2Model ----
(***************************************************************************)
(* Response normalization layer of PathPredict-AI                          *)
(* (utils/apiTransform.js: transformBackendResponse and its helpers).      *)
(*                                                                         *)
(* Number representation.  JavaScript numbers are carried in fixed point   *)
(* so that every computation of the source is exact integer arithmetic:    *)
(*   - scores (invasiveness_score, medication_burden_score,                *)
(*     effectiveness_score, overall_safety_score, severity_score,          *)
(*     patient_burden_score) are in TENTHS      (75 stands for 7.5);       *)
(*   - complication_probability is in HUNDREDTHS (15 stands for 0.15);     *)
(*   - recovery_time_days is in whole days;                                *)
(*   - every output of the normalizer is a whole number.                   *)
(* A JavaScript value in a numeric slot is a record [k, v]: k = "num" for  *)
(* a number v, "undef" for undefined (absent key), "nan" for NaN, "obj"    *)
(* for a non-number object (a member inherited from Object.prototype).     *)
(* JSON null behaves in every numeric context of this code as the number 0 *)
(* (falsy under ||, 0 under * and >=), so the value 0 covers it.           *)
(* Enum-like strings are TLA+ strings, NoString stands for an absent one.  *)
(* Free text (recommendation) is a sequence of characters.                 *)
(***************************************************************************)
EXTENDS Integers, Sequences, FiniteSets, TLC

VARIABLES raw, result, pc, app, view

vars == <<raw, result, pc, app, view>>

----------------------------------------------------------------------------
(* JavaScript values and operators                                         *)

Num(n) == [k |-> "num", v |-> n]
Undefined == [k |-> "undef", v |-> 0]
NaN == [k |-> "nan", v |-> 0]
InheritedMember == [k |-> "obj", v |-> 0]

NoString == "<undefined>"

IsNum(x) == x.k = "num"

\* ToBoolean on a value of a numeric slot: 0, NaN and undefined are falsy.
Truthy(x) == x.k = "obj" \/ (x.k = "num" /\ x.v # 0)

\* a || b
Or(x, d) == IF Truthy(x) THEN x ELSE d

\* ToBoolean on a string slot: undefined and "" are falsy.
TruthyStr(s) == s # NoString /\ s # ""

OrStr(s, d) == IF TruthyStr(s) THEN s ELSE d

Max(a, b) == IF a >= b THEN a ELSE b
Min(a, b) == IF a <= b THEN a ELSE b

\* Math.round(p / q) for q > 0: the nearest integer, halves towards +Infinity.
MathRound(p, q) == (2 * p + q) \div (2 * q)

\* Math.ceil(p / q) for q > 0.
MathCeil(p, q) == -((-p) \div q)

MathAbs(n) == IF n < 0 THEN -n ELSE n

\* Names every object literal inherits from Object.prototype; a lookup
\* table[key] of the source finds them although the literal does not list them.
ObjectPrototypeKeys == {"constructor", "toString", "valueOf", "hasOwnProperty", "__proto__"}

\* table[key] for an object literal `table` with numeric members.
Lookup(table, key) ==
    IF key \in DOMAIN table THEN Num(table[key])
    ELSE IF key \in ObjectPrototypeKeys THEN InheritedMember
    ELSE Undefined

\* String.prototype.toLowerCase on the enum-like strings of the payload.
ToLowerCase(s) ==
    CASE s = "Low" -> "low"
      [] s = "LOW" -> "low"
      [] s = "Moderate" -> "moderate"
      [] s = "High" -> "high"
      [] s = "HIGH" -> "high"
      [] s = "Very-High" -> "very-high"
      [] s = "Critical" -> "critical"
      [] OTHER -> s

\* String.prototype.toLowerCase on free text, character by character.
LowerChar(c) ==
    CASE c = "A" -> "a" [] c = "C" -> "c" [] c = "D" -> "d" [] c = "E" -> "e"
      [] c = "M" -> "m" [] c = "N" -> "n" [] c = "O" -> "o" [] c = "P" -> "p"
      [] c = "R" -> "r" [] c = "T" -> "t" [] c = "W" -> "w"
      [] OTHER -> c

TextToLowerCase(t) == [i \in 1..Len(t) |-> LowerChar(t[i])]

\* String.prototype.includes
Includes(t, sub) ==
    \E i \in 1..(Len(t) - Len(sub) + 1) : SubSeq(t, i, i + Len(sub) - 1) = sub

RECOMMEND == <<"r","e","c","o","m","m","e","n","d">>
NOT_RECOMMEND == <<"n","o","t"," ">> \o RECOMMEND

----------------------------------------------------------------------------
(* calculateQualityOfLife                                                  *)

lifestyleImpact == [minimal |-> 8, moderate |-> 0, significant |-> -8, severe |-> -15]
stabilityBonus == [excellent |-> 10, good |-> 5, fair |-> 0, poor |-> -10]

recoveryPenalty(recoveryDays) ==
    IF recoveryDays > 60 THEN 8 ELSE IF recoveryDays > 30 THEN 4 ELSE 0

\* qol is accumulated in hundredths; a non-number adjustment turns qol into
\* a string by `+=`, which Math.round turns into NaN.
calculateQualityOfLife(surgical, chronic, comparison) ==
    LET base == Or(comparison.effectiveness_score, Num(75)).v * 100
        invasiveness == Or(surgical.invasiveness_score, Num(50)).v
        medicationBurden == Or(chronic.medication_burden_score, Num(50)).v
        lifestyleAdjustment == Or(Lookup(lifestyleImpact, chronic.lifestyle_impact), Num(0))
        stabilityAdjustment == Or(Lookup(stabilityBonus, chronic.disease_stability), Num(0))
        recoveryDays == Or(surgical.recovery_time_days, Num(30)).v
        qol == base - invasiveness * 12 - medicationBurden * 10
                 + lifestyleAdjustment.v * 100 + stabilityAdjustment.v * 100
                 - recoveryPenalty(recoveryDays) * 100
    IN  IF IsNum(lifestyleAdjustment) /\ IsNum(stabilityAdjustment)
        THEN Num(Max(40, Min(100, MathRound(qol, 100))))
        ELSE NaN

----------------------------------------------------------------------------
(* mapReadmissionRisk                                                      *)

NullString == "<null>"
InheritedMemberString == "<function>"

mapping ==
    ("low" :> "Low") @@ ("moderate" :> "Medium") @@ ("high" :> "High") @@ ("very-high" :> "High")

\* Returns NullString for null, else mapping[lowercased] || riskLevel.
mapReadmissionRisk(riskLevel) ==
    IF ~TruthyStr(riskLevel) THEN NullString
    ELSE LET key == ToLowerCase(riskLevel)
         IN  IF key \in DOMAIN mapping THEN mapping[key]
             ELSE IF key \in ObjectPrototypeKeys THEN InheritedMemberString
             ELSE riskLevel

\* mapReadmissionRisk(...) || (score >= 7 ? 'Low' : score >= 4 ? 'Medium' : 'High');
\* undefined >= n is false.
readmissionRiskOf(risk, comparison) ==
    LET mapped == mapReadmissionRisk(risk.readmission_risk)
        score == comparison.overall_safety_score
    IN  IF mapped # NullString THEN mapped
        ELSE IF IsNum(score) /\ score.v >= 70 THEN "Low"
        ELSE IF IsNum(score) /\ score.v >= 40 THEN "Medium"
        ELSE "High"

----------------------------------------------------------------------------
(* calculateConfidence                                                     *)

\* The if / else-if on safety.recommendation: the positive phrase is tested
\* first.
recommendationAdjustment(safety) ==
    LET rec == safety.recommendation
    IN  IF rec.defined /\ Len(rec.text) > 0 /\ Includes(TextToLowerCase(rec.text), RECOMMEND)
        THEN 10
        ELSE IF rec.defined /\ Len(rec.text) > 0
                /\ Includes(TextToLowerCase(rec.text), NOT_RECOMMEND)
        THEN -10
        ELSE 0

\* confidence is accumulated in tenths; adjustment is the recommendation's
\* whole-number contribution.
confidenceWith(safety, risk, comparison, adjustment) ==
    LET safetyScore == Or(safety.severity_score, Num(50)).v
        overallSafety == Or(comparison.overall_safety_score, Num(50)).v
        complicationProb == Or(risk.complication_probability, Num(15)).v
        confidence == 500 + (100 - safetyScore) * 5 + (overallSafety - 50) * 4
                        - complicationProb * 10 + adjustment * 10
    IN  Num(Max(0, Min(100, MathRound(confidence, 10))))

calculateConfidence(safety, risk, comparison) ==
    confidenceWith(safety, risk, comparison, recommendationAdjustment(safety))

----------------------------------------------------------------------------
(* calculateUncertainty                                                    *)

calculateUncertainty(risk, safety) ==
    LET start == IF safety.safety_status = "safe" THEN 1
                 ELSE IF safety.safety_status = "caution" THEN 2 ELSE 3
        complicationProb == Or(risk.complication_probability, Num(15)).v
        afterProb == IF complicationProb > 25 THEN start + 1
                     ELSE IF complicationProb < 10 THEN start - 1 ELSE start
        readmissionRisk == ToLowerCase(OrStr(risk.readmission_risk, ""))
        afterRisk == IF readmissionRisk = "high" \/ readmissionRisk = "very-high"
                     THEN afterProb + 1
                     ELSE IF readmissionRisk = "low" THEN afterProb - 1 ELSE afterProb
        uncertaintyScore == Max(1, Min(3, afterRisk))
    IN  IF uncertaintyScore = 1 THEN "Low"
        ELSE IF uncertaintyScore = 2 THEN "Medium" ELSE "High"

----------------------------------------------------------------------------
(* generateTimelineData                                                    *)

months == 18
Step == 3

\* stability factors in halves: 1.5, 1.0, 0.5, 0.0
stabilityFactors == [excellent |-> 3, good |-> 2, fair |-> 1, poor |-> 0]

NoEvent == "<null>"

\* the markers with 'Mid-term evaluation' at month 9
eventMarkers_midTermAt9 ==
    (3 :> "Initial assessment") @@ (6 :> "Recovery checkpoint")
      @@ (9 :> "Mid-term evaluation") @@ (18 :> "Long-term outcome")

eventMarkers ==
    (3 :> "Initial assessment") @@ (6 :> "Recovery checkpoint")
      @@ (12 :> "Mid-term evaluation") @@ (18 :> "Long-term outcome")

eventAt(i) == IF i \in DOMAIN eventMarkers THEN eventMarkers[i] ELSE NoEvent

\* timelineScore with a recovery ramp that starts at 50% of initialQol
timelineScore_rampFromHalf(i, initialQol, stabilityFactor, recoveryMonths) ==
    IF ~IsNum(initialQol) THEN NaN
    ELSE IF i < recoveryMonths
    THEN Num(Max(40, Min(100, MathRound(initialQol.v * (5 * recoveryMonths + 5 * i),
                                        10 * recoveryMonths))))
    ELSE IF ~IsNum(stabilityFactor) THEN NaN
    ELSE Num(Max(40, Min(100, MathRound(2 * initialQol.v
                                          + stabilityFactor.v * (i - recoveryMonths), 2))))

\* The score of the point at month i; initialQol is a whole number or NaN,
\* stabilityFactor is in halves or a non-number.
timelineScore(i, initialQol, stabilityFactor, recoveryMonths) ==
    IF ~IsNum(initialQol) THEN NaN
    ELSE IF i < recoveryMonths
    THEN Num(Max(40, Min(100, MathRound(initialQol.v * (6 * recoveryMonths + 4 * i),
                                        10 * recoveryMonths))))
    ELSE IF ~IsNum(stabilityFactor) THEN NaN
    ELSE Num(Max(40, Min(100, MathRound(2 * initialQol.v
                                          + stabilityFactor.v * (i - recoveryMonths), 2))))

\* timelineRisk with a time risk that is subtracted from the base risk
timelineRisk_decaying(i, complicationProb, invasiveness) ==
    Max(10, MathRound(Min(90 * 20, complicationProb * 20 - i * invasiveness), 20))

\* risk_value in twentieths: complicationProb * 20 + i * invasiveness,
\* with invasiveness in tenths.
timelineRisk(i, complicationProb, invasiveness) ==
    Max(10, MathRound(Min(90 * 20, complicationProb * 20 + i * invasiveness), 20))

generateTimelineData(surgical, chronic, risk, comparison) ==
    LET recoveryDays == Or(surgical.recovery_time_days, Num(30)).v
        invasiveness == Or(surgical.invasiveness_score, Num(50)).v
        diseaseStability == OrStr(chronic.disease_stability, "fair")
        complicationProb == Or(risk.complication_probability, Num(25)).v
        initialQol == IF IsNum(comparison.effectiveness_score)
                      THEN Num(comparison.effectiveness_score.v) ELSE NaN
        stabilityFactor == Or(Lookup(stabilityFactors, diseaseStability), Num(1))
        recoveryMonths == MathCeil(recoveryDays, 30)
    IN  [n \in 1..(months \div Step + 1) |->
            LET i == (n - 1) * Step
            IN  [month |-> i,
                 score |-> timelineScore(i, initialQol, stabilityFactor, recoveryMonths),
                 risk |-> timelineRisk(i, complicationProb, invasiveness),
                 event |-> eventAt(i)]]

----------------------------------------------------------------------------
(* calculateRiskScore                                                      *)

readmissionMap == ("low" :> 25) @@ ("moderate" :> 50) @@ ("high" :> 75) @@ ("very-high" :> 90)

\* agentData is never null at the call sites (riskA / riskB are `... || {}`).
calculateRiskScore(agentData, riskType) ==
    IF riskType = "readmission"
    THEN Or(Lookup(readmissionMap,
                   IF agentData.readmission_risk = NoString THEN NoString
                   ELSE ToLowerCase(agentData.readmission_risk)), Num(50))
    ELSE IF riskType = "complications"
    THEN Num(Or(agentData.complication_probability, Num(50)).v)
    ELSE Num(50)

\* Math.round(comparison.treatment_x.patient_burden_score * 10)
deteriorationOf(comparison) ==
    IF IsNum(comparison.patient_burden_score)
    THEN Num(comparison.patient_burden_score.v) ELSE NaN

\* Math.abs(a - b); a non-number operand gives NaN.
absDifference(a, b) ==
    IF IsNum(a) /\ IsNum(b) THEN Num(MathAbs(a.v - b.v)) ELSE NaN

----------------------------------------------------------------------------
(* The payload: objects carry `defined` (FALSE for null / an absent key)   *)

NoText == [defined |-> FALSE, text |-> <<>>]
Text(t) == [defined |-> TRUE, text |-> t]

\* An array of strings, or an absent one.
NoList == [defined |-> FALSE, items |-> <<>>]
List(items) == [defined |-> TRUE, items |-> items]

----------------------------------------------------------------------------
(* Text: a string is the sequence of its characters                        *)

\* The character U+2022.
BULLET == "<U+2022>"

\* What String.prototype.trim removes and the regular expression's \s matches.
Whitespace == {" ", "\t", "\r", "\n"}

RECURSIVE TrimStart(_)
TrimStart(t) ==
    IF t # <<>> /\ Head(t) \in Whitespace THEN TrimStart(Tail(t)) ELSE t

RECURSIVE TrimEnd(_)
TrimEnd(t) ==
    IF t # <<>> /\ t[Len(t)] \in Whitespace THEN TrimEnd(SubSeq(t, 1, Len(t) - 1)) ELSE t

\* String.prototype.trim
Trim(t) == TrimEnd(TrimStart(t))

\* String.prototype.split('\n'): the pieces between the line breaks.
RECURSIVE SplitLines(_)
SplitLines(t) ==
    IF \E i \in 1..Len(t) : t[i] = "\n"
    THEN LET i == CHOOSE j \in 1..Len(t) : t[j] = "\n" /\ \A k \in 1..(j - 1) : t[k] # "\n"
         IN  <<SubSeq(t, 1, i - 1)>> \o SplitLines(SubSeq(t, i + 1, Len(t)))
    ELSE <<t>>

\* Array.prototype.slice(0, n)
Slice(list, n) == SubSeq(list, 1, Min(n, Len(list)))

\* Array.prototype.join
RECURSIVE Join(_, _)
Join(list, separator) ==
    IF list = <<>> THEN <<>>
    ELSE IF Len(list) = 1 THEN list[1]
    ELSE list[1] \o separator \o Join(Tail(list), separator)

\* "undefined", what a template string prints for an absent value
UNDEFINED ==
    <<"u","n","d","e","f","i","n","e","d">>

\* ${value} in a template string
Interpolate(value) == IF value.defined THEN value.text ELSE UNDEFINED

\* ToBoolean on a string value: undefined and "" are falsy.
TruthyText(value) == value.defined /\ value.text # <<>>

----------------------------------------------------------------------------
(* combineInsights                                                         *)

\* "Treatment A: "
TREATMENT_A_PREFIX ==
    <<"T","r","e","a","t","m","e","n","t"," ","A",":"," ">>
\* "\n\nTreatment B: "
TREATMENT_B_PREFIX ==
    <<"\n","\n","T","r","e","a","t","m","e","n","t"," ","B",":"," ">>
\* " pending"
PENDING ==
    <<" ","p","e","n","d","i","n","g">>
\* "Surgical analysis"
SURGICAL_ANALYSIS ==
    <<"S","u","r","g","i","c","a","l"," ","a","n","a","l","y","s","i","s">>
\* "Chronic care analysis"
CHRONIC_CARE_ANALYSIS ==
    <<"C","h","r","o","n","i","c"," ","c","a","r","e"," ","a","n","a","l","y",
      "s","i","s">>
\* "Risk assessment"
RISK_ASSESSMENT ==
    <<"R","i","s","k"," ","a","s","s","e","s","s","m","e","n","t">>

\* combineInsights with the two insights swapped in the combined text
combineInsights_swapped(insightA, insightB, fallback) ==
    IF TruthyText(insightA) /\ TruthyText(insightB)
    THEN TREATMENT_A_PREFIX \o insightB.text \o TREATMENT_B_PREFIX \o insightA.text
    ELSE IF TruthyText(insightA) THEN insightA.text
    ELSE IF TruthyText(insightB) THEN insightB.text
    ELSE fallback \o PENDING

combineInsights(insightA, insightB, fallback) ==
    IF TruthyText(insightA) /\ TruthyText(insightB)
    THEN TREATMENT_A_PREFIX \o insightA.text \o TREATMENT_B_PREFIX \o insightB.text
    ELSE IF TruthyText(insightA) THEN insightA.text
    ELSE IF TruthyText(insightB) THEN insightB.text
    ELSE fallback \o PENDING

----------------------------------------------------------------------------
(* extractReasoningPoints                                                  *)

\* "===="
BANNER ==
    <<"=","=","=","=">>
\* "CLINICAL"
CLINICAL ==
    <<"C","L","I","N","I","C","A","L">>
\* "WARNING"
WARNING ==
    <<"W","A","R","N","I","N","G">>

BulletMarkers == {"-", BULLET, "*"}

\* line.replace(/^[-•*]\s*/, ''): one marker at the very start and the
\* whitespace after it, if any.
stripBullet(line) ==
    IF line # <<>> /\ Head(line) \in BulletMarkers THEN TrimStart(Tail(line)) ELSE line

keepLine(line) ==
    /\ Trim(line) # <<>>
    /\ ~Includes(line, BANNER)
    /\ ~Includes(line, CLINICAL)
    /\ ~Includes(line, WARNING)
    /\ Len(line) > 20

nonEmpty(line) == Len(line) > 0

\* Array.prototype.filter with keepLine
RECURSIVE FilterKeepLine(_)
FilterKeepLine(list) ==
    IF list = <<>> THEN <<>>
    ELSE (IF keepLine(Head(list)) THEN <<Head(list)>> ELSE <<>>) \o FilterKeepLine(Tail(list))

\* Array.prototype.filter with nonEmpty
RECURSIVE FilterNonEmpty(_)
FilterNonEmpty(list) ==
    IF list = <<>> THEN <<>>
    ELSE (IF nonEmpty(Head(list)) THEN <<Head(list)>> ELSE <<>>) \o FilterNonEmpty(Tail(list))

extractReasoningPoints(finalNotes) ==
    IF ~TruthyText(finalNotes) THEN <<>>
    ELSE LET lines == FilterKeepLine(SplitLines(finalNotes.text))
             kept == Slice(lines, 3)
         IN  FilterNonEmpty([n \in 1..Len(kept) |-> Trim(stripBullet(kept[n]))])

----------------------------------------------------------------------------
(* The reasoning list of transformBackendResponse                          *)

\* "Treatment A ("
SUMMARY_A_PREFIX ==
    <<"T","r","e","a","t","m","e","n","t"," ","A"," ","(">>
\* "Treatment B ("
SUMMARY_B_PREFIX ==
    <<"T","r","e","a","t","m","e","n","t"," ","B"," ","(">>
\* " cost-benefit): "
COST_BENEFIT ==
    <<" ","c","o","s","t","-","b","e","n","e","f","i","t",")",":"," ">>
\* "Treatment A Safety: "
SAFETY_A_PREFIX ==
    <<"T","r","e","a","t","m","e","n","t"," ","A"," ","S","a","f","e","t","y",
      ":"," ">>
\* "Treatment B Safety: "
SAFETY_B_PREFIX ==
    <<"T","r","e","a","t","m","e","n","t"," ","B"," ","S","a","f","e","t","y",
      ":"," ">>
\* "; "
SEMICOLON ==
    <<";"," ">>

summaryLine(prefix, comparison) ==
    prefix \o Interpolate(comparison.cost_benefit_ratio) \o COST_BENEFIT
           \o Interpolate(comparison.summary)

\* safetyWarning that lists the first three contraindications
safetyWarning_firstThree(prefix, safety) ==
    IF safety.identified_contraindications.defined
         /\ Len(safety.identified_contraindications.items) > 0
    THEN <<prefix \o Join(Slice(safety.identified_contraindications.items, 3), SEMICOLON)>>
    ELSE <<>>

\* ...(safety.identified_contraindications?.length > 0 ? [`... Safety: ...`] : [])
safetyWarning(prefix, safety) ==
    IF safety.identified_contraindications.defined
         /\ Len(safety.identified_contraindications.items) > 0
    THEN <<prefix \o Join(Slice(safety.identified_contraindications.items, 2), SEMICOLON)>>
    ELSE <<>>

\* the candidates with the final-notes lines ahead of the safety warnings
reasoningCandidates_notesBeforeSafety(safetyA, safetyB, comparison, final_notes) ==
    << summaryLine(SUMMARY_A_PREFIX, comparison.treatment_a),
       summaryLine(SUMMARY_B_PREFIX, comparison.treatment_b) >>
      \o extractReasoningPoints(final_notes)
      \o safetyWarning(SAFETY_A_PREFIX, safetyA)
      \o safetyWarning(SAFETY_B_PREFIX, safetyB)

reasoningCandidates(safetyA, safetyB, comparison, final_notes) ==
    << summaryLine(SUMMARY_A_PREFIX, comparison.treatment_a),
       summaryLine(SUMMARY_B_PREFIX, comparison.treatment_b) >>
      \o safetyWarning(SAFETY_A_PREFIX, safetyA)
      \o safetyWarning(SAFETY_B_PREFIX, safetyB)
      \o extractReasoningPoints(final_notes)

\* [...].filter(r => r && r.length > 0).slice(0, 5)
reasoningOf(safetyA, safetyB, comparison, final_notes) ==
    Slice(FilterNonEmpty(reasoningCandidates(safetyA, safetyB, comparison, final_notes)), 5)

----------------------------------------------------------------------------
(* The agents' sub-objects and the comparison entries                      *)

NoSurgical == [defined |-> FALSE, invasiveness_score |-> Undefined,
               recovery_time_days |-> Undefined, insights |-> NoText]
NoChronic == [defined |-> FALSE, medication_burden_score |-> Undefined,
              lifestyle_impact |-> NoString, disease_stability |-> NoString,
              insights |-> NoText]
NoRisk == [defined |-> FALSE, complication_probability |-> Undefined,
           readmission_risk |-> NoString, insights |-> NoText]
NoSafety == [defined |-> FALSE, severity_score |-> Undefined, safety_status |-> NoString,
             recommendation |-> NoText, identified_contraindications |-> NoList]
NoComparisonSide == [defined |-> FALSE, overall_safety_score |-> Undefined,
                     effectiveness_score |-> Undefined, patient_burden_score |-> Undefined,
                     cost_benefit_ratio |-> NoText, summary |-> NoText]

\* The object literal {} of each shape.
Empty(noObject) == [noObject EXCEPT !.defined = TRUE]

\* x || {}
OrEmpty(x) == IF x.defined THEN x ELSE Empty(x)

Agent(ta, tb) == [defined |-> TRUE, treatment_a |-> ta, treatment_b |-> tb]
NoAgent(noObject) == [defined |-> FALSE, treatment_a |-> noObject, treatment_b |-> noObject]

NoAgents == [defined |-> FALSE,
             surgical_agent |-> NoAgent(NoSurgical), chronic_care_agent |-> NoAgent(NoChronic),
             risk_agent |-> NoAgent(NoRisk), safety_agent |-> NoAgent(NoSafety)]
NoComparison == [defined |-> FALSE, treatment_a |-> NoComparisonSide,
                 treatment_b |-> NoComparisonSide]
NullPayload == [defined |-> FALSE, agents |-> NoAgents, comparison |-> NoComparison,
                final_notes |-> NoText]

----------------------------------------------------------------------------
(* transformBackendResponse                                                *)

InvalidStructure == "Error: Invalid backend response structure"
TypeError == "TypeError: Cannot read properties of undefined"

Threw(e) == [status |-> "threw", error |-> e]

delayStep(qol, floor, decrement) ==
    IF IsNum(qol) THEN Num(Max(floor, qol.v - decrement)) ELSE NaN

outcomeOf(surgical, chronic, risk, safety, comparison) ==
    [quality_of_life |-> calculateQualityOfLife(surgical, chronic, comparison),
     readmission_risk |-> readmissionRiskOf(risk, comparison),
     confidence |-> calculateConfidence(safety, risk, comparison),
     uncertainty |-> calculateUncertainty(risk, safety)]

\* the guard without its test of backendData.comparison
invalidStructure_agentsOnly(backendData) ==
    ~backendData.defined \/ ~backendData.agents.defined

\* !backendData || !backendData.agents || !backendData.comparison
invalidStructure(backendData) ==
    ~backendData.defined \/ ~backendData.agents.defined \/ ~backendData.comparison.defined

transformBackendResponse(backendData) ==
    IF invalidStructure(backendData)
    THEN Threw(InvalidStructure)
    ELSE
    LET agents == backendData.agents
        comparison == backendData.comparison
        surgicalA == OrEmpty(agents.surgical_agent.treatment_a)
        chronicA == OrEmpty(agents.chronic_care_agent.treatment_a)
        riskA == OrEmpty(agents.risk_agent.treatment_a)
        safetyA == OrEmpty(agents.safety_agent.treatment_a)
        surgicalB == OrEmpty(agents.surgical_agent.treatment_b)
        chronicB == OrEmpty(agents.chronic_care_agent.treatment_b)
        riskB == OrEmpty(agents.risk_agent.treatment_b)
        safetyB == OrEmpty(agents.safety_agent.treatment_b)
    IN  \* calculateQualityOfLife reads comparison.effectiveness_score of its
        \* third argument without a guard
        IF ~comparison.treatment_a.defined \/ ~comparison.treatment_b.defined
        THEN Threw(TypeError)
        ELSE
        LET outcome_a == outcomeOf(surgicalA, chronicA, riskA, safetyA, comparison.treatment_a)
            outcome_b == outcomeOf(surgicalB, chronicB, riskB, safetyB, comparison.treatment_b)
            risks ==
                [readmission |->
                    [treatmentA |-> calculateRiskScore(riskA, "readmission"),
                     treatmentB |-> calculateRiskScore(riskB, "readmission")],
                 complications |->
                    [treatmentA |-> calculateRiskScore(riskA, "complications"),
                     treatmentB |-> calculateRiskScore(riskB, "complications")],
                 deterioration |->
                    [treatmentA |-> deteriorationOf(comparison.treatment_a),
                     treatmentB |-> deteriorationOf(comparison.treatment_b)]]
            delay_impact ==
                [risk_increases |->
                    << [category |-> "Readmission",
                        change |-> absDifference(risks.readmission.treatmentA,
                                                 risks.readmission.treatmentB)],
                       [category |-> "Complications",
                        change |-> absDifference(risks.complications.treatmentA,
                                                 risks.complications.treatmentB)],
                       [category |-> "Deterioration",
                        change |-> absDifference(risks.deterioration.treatmentA,
                                                 risks.deterioration.treatmentB)] >>,
                 qol_immediate |-> outcome_a.quality_of_life,
                 qol_1month |-> delayStep(outcome_a.quality_of_life, 50, 10),
                 qol_3months |-> delayStep(outcome_a.quality_of_life, 40, 20)]
        IN  [status |-> "returned",
             model |->
                [treatment_a |-> "Treatment A",
                 treatment_b |-> "Treatment B",
                 outcome_a |-> outcome_a,
                 outcome_b |-> outcome_b,
                 timeline_a |-> generateTimelineData(surgicalA, chronicA, riskA,
                                                     comparison.treatment_a),
                 timeline_b |-> generateTimelineData(surgicalB, chronicB, riskB,
                                                     comparison.treatment_b),
                 risks |-> risks,
                 delay_impact |-> delay_impact,
                 explanation |->
                    [reasoning |-> reasoningOf(safetyA, safetyB, comparison,
                                               backendData.final_notes),
                     agents |->
                        [surgical |-> combineInsights(
                            agents.surgical_agent.treatment_a.insights,
                            agents.surgical_agent.treatment_b.insights, SURGICAL_ANALYSIS),
                         chronic_care |-> combineInsights(
                            agents.chronic_care_agent.treatment_a.insights,
                            agents.chronic_care_agent.treatment_b.insights,
                            CHRONIC_CARE_ANALYSIS),
                         risk |-> combineInsights(
                            agents.risk_agent.treatment_a.insights,
                            agents.risk_agent.treatment_b.insights, RISK_ASSESSMENT)]]]]

----------------------------------------------------------------------------
(* Payloads the backend can send                                           *)

MaxScore == 100
MaxProbability == 60
MaxRecoveryDays == 200

\* "We recommend proceeding"
WeRecommendProceeding ==
    <<"W","e"," ","r","e","c","o","m","m","e","n","d"," ","p","r","o","c",
      "e","e","d","i","n","g">>
\* "Not recommended"
NotRecommended ==
    <<"N","o","t"," ","r","e","c","o","m","m","e","n","d","e","d">>
\* "NOT RECOMMENDED"
NotRecommendedUpper ==
    <<"N","O","T"," ","R","E","C","O","M","M","E","N","D","E","D">>
\* "Proceed with caution"
ProceedWithCaution ==
    <<"P","r","o","c","e","e","d"," ","w","i","t","h"," ","c","a","u","t",
      "i","o","n">>

EffectivenessValues == {Undefined, Num(0), Num(20), Num(82), Num(MaxScore)}
InvasivenessValues == {Undefined, Num(0), Num(35), Num(MaxScore)}
MedicationValues == {Undefined, Num(0), Num(MaxScore)}
LifestyleValues ==
    {NoString, "minimal", "moderate", "significant", "severe", "unexpected", "constructor"}
StabilityValues ==
    {NoString, "", "excellent", "good", "fair", "poor", "unexpected", "toString"}
RecoveryValues == {Undefined, Num(14), Num(30), Num(45), Num(75), Num(MaxRecoveryDays)}
ProbabilityValues == {Undefined, Num(0), Num(5), Num(10), Num(30), Num(MaxProbability)}
ReadmissionValues ==
    {NoString, "", "low", "moderate", "HIGH", "Very-High", "Critical", "unexpected",
     "constructor"}
SeverityValues == {Undefined, Num(0), Num(30), Num(MaxScore)}
SafetyScoreValues == {Undefined, Num(0), Num(39), Num(60), Num(80), Num(MaxScore)}
BurdenValues == {Undefined, Num(0), Num(60), Num(MaxScore)}
StatusValues == {NoString, "safe", "caution", "unsafe"}
RecommendationValues ==
    {NoText, Text(<<>>), Text(WeRecommendProceeding), Text(NotRecommended),
     Text(NotRecommendedUpper), Text(ProceedWithCaution)}

Surgical(inv, days) ==
    [defined |-> TRUE, invasiveness_score |-> inv, recovery_time_days |-> days,
     insights |-> NoText]
Chronic(med, life, stab) ==
    [defined |-> TRUE, medication_burden_score |-> med, lifestyle_impact |-> life,
     disease_stability |-> stab, insights |-> NoText]
Risk(prob, rr) ==
    [defined |-> TRUE, complication_probability |-> prob, readmission_risk |-> rr,
     insights |-> NoText]
Safety(sev, status, rec) ==
    [defined |-> TRUE, severity_score |-> sev, safety_status |-> status, recommendation |-> rec,
     identified_contraindications |-> NoList]
ComparisonSide(os, eff, pbs) ==
    [defined |-> TRUE, overall_safety_score |-> os, effectiveness_score |-> eff,
     patient_burden_score |-> pbs, cost_benefit_ratio |-> NoText, summary |-> NoText]

\* One treatment side of a payload: what each agent and the comparison say
\* about it.
Side(su, ch, ri, sa, co) == [surgical |-> su, chronic |-> ch, risk |-> ri, safety |-> sa, comp |-> co]

BaseSurgical == Surgical(Num(35), Num(45))
BaseChronic == Chronic(Num(40), "moderate", "good")
BaseRisk == Risk(Num(10), "moderate")
BaseSafety == Safety(Num(30), "safe", Text(WeRecommendProceeding))
BaseComparisonSide == ComparisonSide(Num(80), Num(82), Num(60))
BaseSide == Side(BaseSurgical, BaseChronic, BaseRisk, BaseSafety, BaseComparisonSide)

\* No agent reports on the side and the comparison entry is {}.
EmptySide == Side(NoSurgical, NoChronic, NoRisk, NoSafety, Empty(NoComparisonSide))

\* The inputs of calculateQualityOfLife.
QolSides ==
    {Side(Surgical(inv, days), Chronic(med, life, stab), BaseRisk, BaseSafety,
          ComparisonSide(Num(80), eff, Num(60))) :
        inv \in InvasivenessValues \ {Num(0)}, days \in {Undefined, Num(45), Num(MaxRecoveryDays)},
        med \in MedicationValues, life \in LifestyleValues,
        stab \in {NoString, "excellent", "poor", "unexpected", "toString"},
        eff \in EffectivenessValues}

\* The inputs of the timeline scores.
TimelineScoreSides ==
    {Side(Surgical(Num(35), days), Chronic(Num(40), "moderate", stab), BaseRisk, BaseSafety,
          ComparisonSide(Num(80), eff, Num(60))) :
        days \in RecoveryValues, stab \in StabilityValues, eff \in EffectivenessValues}

\* The inputs of the timeline risks and of the risks block.
RiskSides ==
    {Side(Surgical(inv, Num(45)), BaseChronic, Risk(prob, rr), BaseSafety,
          ComparisonSide(Num(80), Num(82), pbs)) :
        inv \in InvasivenessValues, prob \in ProbabilityValues,
        rr \in {NoString, "low", "Very-High", "constructor"}, pbs \in BurdenValues}

\* The inputs of calculateConfidence.
ConfidenceSides ==
    {Side(BaseSurgical, BaseChronic, Risk(prob, "moderate"), Safety(sev, "safe", rec),
          ComparisonSide(os, Num(82), Num(60))) :
        prob \in ProbabilityValues, sev \in SeverityValues, rec \in RecommendationValues,
        os \in SafetyScoreValues}

\* The inputs of calculateUncertainty and of the readmission outcome.
ReadmissionSides ==
    {Side(BaseSurgical, BaseChronic, Risk(prob, rr), Safety(Num(30), status, NoText),
          ComparisonSide(os, Num(82), Num(60))) :
        prob \in {Undefined, Num(0), Num(5), Num(30)}, rr \in ReadmissionValues,
        status \in StatusValues, os \in SafetyScoreValues}

Sides == QolSides \cup TimelineScoreSides \cup RiskSides \cup ConfidenceSides
            \cup ReadmissionSides

OtherSides == {BaseSide, EmptySide}

AgentsOf(a, b) ==
    [defined |-> TRUE,
     surgical_agent |-> Agent(a.surgical, b.surgical),
     chronic_care_agent |-> Agent(a.chronic, b.chronic),
     risk_agent |-> Agent(a.risk, b.risk),
     safety_agent |-> Agent(a.safety, b.safety)]

ComparisonOf(ta, tb) == [defined |-> TRUE, treatment_a |-> ta, treatment_b |-> tb]

Payload(a, b) ==
    [defined |-> TRUE, agents |-> AgentsOf(a, b), comparison |-> ComparisonOf(a.comp, b.comp),
     final_notes |-> NoText]

\* agents: {} -- no agent entry at all
AgentsWithoutEntries == [NoAgents EXCEPT !.defined = TRUE]

\* Payloads that differ in which objects are present.
StructuralPayloads ==
    {NullPayload} \cup
    {[defined |-> TRUE, agents |-> ag, comparison |-> co, final_notes |-> NoText] :
        ag \in {NoAgents, AgentsWithoutEntries, AgentsOf(BaseSide, EmptySide),
                AgentsOf(BaseSide, BaseSide)},
        co \in {NoComparison} \cup
               {ComparisonOf(ta, tb) :
                   ta \in {NoComparisonSide, Empty(NoComparisonSide), BaseComparisonSide},
                   tb \in {NoComparisonSide, Empty(NoComparisonSide), BaseComparisonSide}}}

----------------------------------------------------------------------------
(* Payloads that differ in their texts                                     *)

\* "Minimally invasive."
InsightA ==
    <<"M","i","n","i","m","a","l","l","y"," ","i","n","v","a","s","i","v","e",
      ".">>

\* "Stable on therapy."
InsightB ==
    <<"S","t","a","b","l","e"," ","o","n"," ","t","h","e","r","a","p","y",".">>

InsightValuesA == {NoText, Text(<<>>), Text(InsightA)}

InsightValuesB == {NoText, Text(<<>>), Text(InsightB)}

WithInsights(side, su, ch, ri) ==
    [side EXCEPT !.surgical.insights = su, !.chronic.insights = ch, !.risk.insights = ri]

InsightPayloads ==
    {Payload(WithInsights(BaseSide, sa, ca, ra), WithInsights(BaseSide, sb, cb, rb)) :
        sa \in InsightValuesA, ca \in InsightValuesA, ra \in InsightValuesA,
        sb \in InsightValuesB, cb \in InsightValuesB, rb \in InsightValuesB}

\* "penicillin allergy"
Allergy ==
    <<"p","e","n","i","c","i","l","l","i","n"," ","a","l","l","e","r","g","y">>

\* "renal impairment"
Renal ==
    <<"r","e","n","a","l"," ","i","m","p","a","i","r","m","e","n","t">>

\* "on warfarin"
Anticoagulant ==
    <<"o","n"," ","w","a","r","f","a","r","i","n">>

ContraindicationValuesA ==
    {NoList, List(<<>>), List(<<Allergy>>), List(<<Allergy, Renal, Anticoagulant>>)}

ContraindicationValuesB == {NoList, List(<<Renal, Anticoagulant>>)}

\* "favorable"
Favorable ==
    <<"f","a","v","o","r","a","b","l","e">>

\* "good outcome"
SummaryText ==
    <<"g","o","o","d"," ","o","u","t","c","o","m","e">>

\* A banner, bulleted lines, a blank line, a WARNING line, a short line and four
\* lines that qualify.
NotesTypical ==
    <<"=","=","=","="," ","C","L","I","N","I","C","A","L"," ","S","U","M","M",
      "A","R","Y"," ","=","=","=","=","\n","-"," ","T","r","e","a","t","m",
      "e","n","t"," ","A"," ","o","f","f","e","r","s"," ","f","a","s","t","e",
      "r"," ","r","e","c","o","v","e","r","y","\n","\n","*"," ","M","o","n",
      "i","t","o","r"," ","r","e","n","a","l"," ","f","u","n","c","t","i","o",
      "n"," ","w","e","e","k","l","y","\n","W","A","R","N","I","N","G",":",
      " ","c","h","e","c","k"," ","a","l","l","e","r","g","i","e","s"," ","b",
      "e","f","o","r","e"," ","s","u","r","g","e","r","y","\n","s","h","o",
      "r","t"," ","l","i","n","e","\n",BULLET," ","L","o","w","e","r"," ","r",
      "e","a","d","m","i","s","s","i","o","n"," ","r","i","s","k"," ","w","i",
      "t","h"," ","B","\n","T","r","e","a","t","m","e","n","t"," ","B"," ",
      "s","u","i","t","s"," ","f","r","a","i","l"," ","p","a","t","i","e","n",
      "t","s">>

\* A line that opens with markdown emphasis.
NotesMarkdown ==
    <<"*","*","R","e","c","o","m","m","e","n","d","a","t","i","o","n","*","*",
      ":"," ","p","r","o","c","e","e","d"," ","w","i","t","h"," ","A","\n",
      "P","l","a","i","n"," ","l","i","n","e"," ","l","o","n","g","e","r"," ",
      "t","h","a","n"," ","t","w","e","n","t","y">>

\* A line that opens with a minus sign and an indented bullet.
NotesMinus ==
    <<"-","5"," ","k","g"," ","w","e","i","g","h","t"," ","l","o","s","s"," ",
      "i","s"," ","e","x","p","e","c","t","e","d","\n"," "," ","-"," ","i",
      "n","d","e","n","t","e","d"," ","b","u","l","l","e","t"," ","s","t","a",
      "y","s"," ","a","s"," ","i","s">>

\* Only short lines.
NotesShort ==
    <<"P","r","o","c","e","e","d"," ","w","i","t","h"," ","A",".","\n","R",
      "e","v","i","e","w"," ","i","n"," ","3"," ","m","o","n","t","h","s",".">>

\* A line of spaces, a bullet followed only by spaces, and a plain line.
NotesBlank ==
    <<" "," "," "," "," "," "," "," "," "," "," "," "," "," "," "," "," "," ",
      " "," "," "," "," "," "," ","\n","-"," "," "," "," "," "," "," "," ",
      " "," "," "," "," "," "," "," "," "," "," "," "," "," "," "," ","\n",
      "F","o","l","l","o","w"," ","u","p"," ","i","n"," ","s","i","x"," ","w",
      "e","e","k","s"," ","a","t"," ","c","l","i","n","i","c">>

NotesValues ==
    {NoText, Text(<<>>), Text(NotesTypical), Text(NotesMarkdown), Text(NotesMinus),
     Text(NotesShort), Text(NotesBlank)}

WithReasoning(side, contraindications, ratio, summary) ==
    [side EXCEPT !.safety.identified_contraindications = contraindications,
                 !.comp.cost_benefit_ratio = ratio,
                 !.comp.summary = summary]

ReasoningPayloads ==
    {[Payload(WithReasoning(BaseSide, ca, texts[1], texts[2]),
              WithReasoning(BaseSide, cb, texts[1], texts[2]))
        EXCEPT !.final_notes = notes] :
        ca \in ContraindicationValuesA, cb \in ContraindicationValuesB,
        texts \in {<<NoText, NoText>>, <<Text(Favorable), Text(SummaryText)>>},
        notes \in NotesValues}

Payloads ==
    StructuralPayloads
      \cup {Payload(a, b) : a \in Sides, b \in OtherSides}
      \cup {Payload(a, b) : a \in OtherSides, b \in Sides}
      \cup InsightPayloads
      \cup ReasoningPayloads

----------------------------------------------------------------------------
(* One call of transformBackendResponse on a payload                       *)

NoResult == [status |-> "none"]

\* The App component after mounting: nothing loaded, no error, the health
\* check of the mount effect in flight, no simulation request.
AppMounted ==
    [isLoading |-> FALSE,
     simulationData |-> [kind |-> "null"],
     error |-> [kind |-> "null"],
     backendStatus |-> "checking",
     requests |-> <<>>,
     healthChecks |-> 1]

\* No HorizontalTimeline is rendered.
NotRendered ==
    [timelineData |-> 0, length |-> 0, visibleSteps |-> 0, timers |-> {},
     effectPending |-> FALSE, supplied |-> 0]

Init ==
    /\ raw \in Payloads
    /\ result = NoResult
    /\ pc = "start"
    /\ app = AppMounted
    /\ view = NotRendered

\* transformBackendResponse(raw) returns a model or throws.
Transform ==
    /\ pc = "start"
    /\ result' = transformBackendResponse(raw)
    /\ pc' = "done"
    /\ UNCHANGED <<raw, app, view>>

Next == Transform

Spec == Init /\ [][Next]_vars

Returned == pc = "done" /\ result.status = "returned"
ThrewError == pc = "done" /\ result.status = "threw"

----------------------------------------------------------------------------
(* What the call was given, as the normalizer extracts it                  *)

SurgicalOf(side) ==
    OrEmpty(IF side = "a" THEN raw.agents.surgical_agent.treatment_a
            ELSE raw.agents.surgical_agent.treatment_b)
ChronicOf(side) ==
    OrEmpty(IF side = "a" THEN raw.agents.chronic_care_agent.treatment_a
            ELSE raw.agents.chronic_care_agent.treatment_b)
RiskOf(side) ==
    OrEmpty(IF side = "a" THEN raw.agents.risk_agent.treatment_a
            ELSE raw.agents.risk_agent.treatment_b)
SafetyOf(side) ==
    OrEmpty(IF side = "a" THEN raw.agents.safety_agent.treatment_a
            ELSE raw.agents.safety_agent.treatment_b)
ComparisonSideOf(side) ==
    IF side = "a" THEN raw.comparison.treatment_a ELSE raw.comparison.treatment_b
OutcomeOf(side) ==
    IF side = "a" THEN result.model.outcome_a ELSE result.model.outcome_b
TimelineOf(side) ==
    IF side = "a" THEN result.model.timeline_a ELSE result.model.timeline_b

TreatmentSides == {"a", "b"}
RiskLevels == {"Low", "Medium", "High"}

InRange(x, lo, hi) == IsNum(x) /\ lo <= x.v /\ x.v <= hi

----------------------------------------------------------------------------
(* Claims                                                                  *)

\* C1: whenever the payload is null, or its agents field is null, or its
\* comparison field is null, the call throws the structural error and
\* returns no model.
C1_FailFast ==
    (pc = "done" /\ (~raw.defined \/ ~raw.agents.defined \/ ~raw.comparison.defined))
        => result = Threw(InvalidStructure)

\* C1 witness: a call on a payload with agents but a null comparison has thrown.
C1_Witness ==
    /\ pc = "done"
    /\ raw.defined /\ raw.agents.defined /\ ~raw.comparison.defined
    /\ result.status = "threw"

\* C2: a payload whose agents and comparison are both non-null never makes
\* the call throw, whichever other fields are absent.
C2_OnlyStructuralFailure ==
    (pc = "done" /\ raw.defined /\ raw.agents.defined /\ raw.comparison.defined)
        => result.status = "returned"

\* C3: a returned model is fully populated: every numeric output is a number
\* inside its documented bound and every enum output is a documented value.
C3_Totality ==
    Returned =>
        /\ \A side \in TreatmentSides :
              /\ InRange(OutcomeOf(side).quality_of_life, 40, 100)
              /\ InRange(OutcomeOf(side).confidence, 0, 100)
              /\ OutcomeOf(side).readmission_risk \in RiskLevels
              /\ OutcomeOf(side).uncertainty \in RiskLevels
              /\ \A n \in DOMAIN TimelineOf(side) :
                    /\ InRange(TimelineOf(side)[n].score, 40, 100)
                    /\ TimelineOf(side)[n].risk \in 10..90
        /\ \A category \in {"readmission", "complications", "deterioration"} :
              /\ InRange(result.model.risks[category].treatmentA, 0, 100)
              /\ InRange(result.model.risks[category].treatmentB, 0, 100)
        /\ IsNum(result.model.delay_impact.qol_immediate)
        /\ IsNum(result.model.delay_impact.qol_1month)
        /\ IsNum(result.model.delay_impact.qol_3months)
        /\ \A n \in DOMAIN result.model.delay_impact.risk_increases :
              IsNum(result.model.delay_impact.risk_increases[n].change)

\* C4: in every returned model whose quality of life for treatment A is a
\* number, qol_immediate >= qol_1month >= qol_3months.
C4_DelayMonotonic ==
    (Returned /\ IsNum(result.model.outcome_a.quality_of_life)) =>
        /\ result.model.delay_impact.qol_immediate.v >= result.model.delay_impact.qol_1month.v
        /\ result.model.delay_impact.qol_1month.v >= result.model.delay_impact.qol_3months.v

\* The recommendation adjustment as C5 states it: the negative phrase first.
claimedRecommendationAdjustment(safety) ==
    LET rec == safety.recommendation
        lower == TextToLowerCase(rec.text)
    IN  IF rec.defined /\ Includes(lower, NOT_RECOMMEND) THEN -10
        ELSE IF rec.defined /\ Includes(lower, RECOMMEND) THEN 10
        ELSE 0

\* C5: the confidence of each outcome is the score with the recommendation
\* adjustment -10 when the text contains "not recommend", +10 when it
\* contains "recommend" outside "not recommend", and 0 otherwise.
C5_RecommendationAdjustment ==
    Returned =>
        \A side \in TreatmentSides :
            OutcomeOf(side).confidence =
                confidenceWith(SafetyOf(side), RiskOf(side), ComparisonSideOf(side),
                               claimedRecommendationAdjustment(SafetyOf(side)))

\* C6: the quality of life of both outcomes is an integer between 40 and 100
\* for every input of the scorer.
C6_QolFloor ==
    Returned =>
        \A side \in TreatmentSides : InRange(OutcomeOf(side).quality_of_life, 40, 100)

\* C7: the readmission risk of both outcomes is one of Low, Medium, High for
\* every value of the risk agent's readmission_risk.
C7_ReadmissionEnum ==
    Returned =>
        \A side \in TreatmentSides : OutcomeOf(side).readmission_risk \in RiskLevels

\* The direct mapping as C8 states it: case-insensitive on the four known
\* levels, any other value unchanged.
claimedDirectMapping(riskLevel) ==
    LET key == ToLowerCase(riskLevel)
    IN  CASE key = "low" -> "Low"
          [] key = "moderate" -> "Medium"
          [] key = "high" -> "High"
          [] key = "very-high" -> "High"
          [] OTHER -> riskLevel

claimedThreshold(score) ==
    IF IsNum(score) /\ score.v >= 70 THEN "Low"
    ELSE IF IsNum(score) /\ score.v >= 40 THEN "Medium"
    ELSE "High"

\* C8: a present readmission_risk is mapped directly whatever the
\* overall_safety_score is; only an absent one falls back to the threshold on
\* overall_safety_score.
C8_ReadmissionPrecedence ==
    Returned =>
        \A side \in TreatmentSides :
            OutcomeOf(side).readmission_risk =
                IF RiskOf(side).readmission_risk # NoString
                THEN claimedDirectMapping(RiskOf(side).readmission_risk)
                ELSE claimedThreshold(ComparisonSideOf(side).overall_safety_score)

\* C9: every value of the risks block is an integer between 0 and 100.
C9_RisksInRange ==
    Returned =>
        \A category \in {"readmission", "complications", "deterioration"} :
            /\ InRange(result.model.risks[category].treatmentA, 0, 100)
            /\ InRange(result.model.risks[category].treatmentB, 0, 100)

\* C10: both timelines have exactly 7 points at months 0,3,...,18 in order,
\* with the four named events at months 3, 6, 12, 18 and no event at months
\* 0, 9 and 15.
C10_TimelineShape ==
    Returned =>
        \A side \in TreatmentSides :
            /\ Len(TimelineOf(side)) = 7
            /\ [n \in 1..7 |-> TimelineOf(side)[n].month] = <<0, 3, 6, 9, 12, 15, 18>>
            /\ [n \in 1..7 |-> TimelineOf(side)[n].event] =
                  <<NoEvent, "Initial assessment", "Recovery checkpoint", NoEvent,
                    "Mid-term evaluation", NoEvent, "Long-term outcome">>

\* C10 witness: a model was returned for a payload whose side A has no agent
\* data and an empty comparison entry, and its timeline ends at month 18.
C10_Witness ==
    /\ Returned
    /\ ~raw.agents.surgical_agent.treatment_a.defined
    /\ ~IsNum(raw.comparison.treatment_a.effectiveness_score)
    /\ result.model.timeline_a[7].month = 18

\* a ?? d: the default only for an absent value.
Nullish(x, d) == IF x.k = "undef" THEN d ELSE x

\* A table entry as the claims state it: 0 for an unknown or missing key.
claimedAdjustment(table, key) == IF key \in DOMAIN table THEN table[key] ELSE 0

\* C11: for a side whose effectiveness_score is a number, every timeline
\* point has a score that is an integer in [40,100] and a risk that is an
\* integer in [10,90], whatever the other inputs are.
C11_TimelineBounds ==
    Returned =>
        \A side \in TreatmentSides :
            IsNum(ComparisonSideOf(side).effectiveness_score) =>
                \A n \in DOMAIN TimelineOf(side) :
                    /\ InRange(TimelineOf(side)[n].score, 40, 100)
                    /\ TimelineOf(side)[n].risk \in 10..90

\* The confidence formula of C12 with its defaults applied to absent fields
\* only; the recommendation adjustment is the one the code computes.
claimedConfidence(safety, risk, comparison) ==
    LET confidence == 500 + (100 - Nullish(safety.severity_score, Num(50)).v) * 5
                        + (Nullish(comparison.overall_safety_score, Num(50)).v - 50) * 4
                        - Nullish(risk.complication_probability, Num(15)).v * 10
                        + recommendationAdjustment(safety) * 10
    IN  Num(Max(0, Min(100, MathRound(confidence, 10))))

\* C12: the confidence is clamp(round(50 + (10 - severity)*5 + (overall
\* safety - 5)*4 - probability*100 + adjustment), 0, 100) with the defaults
\* 5, 5 and 0.15 for absent fields, it is 97 on the documented example, and
\* it is always an integer in [0,100].
C12_ConfidenceFormula ==
    Returned =>
        \A side \in TreatmentSides :
            /\ OutcomeOf(side).confidence =
                  claimedConfidence(SafetyOf(side), RiskOf(side), ComparisonSideOf(side))
            /\ InRange(OutcomeOf(side).confidence, 0, 100)
            /\ (/\ SafetyOf(side).severity_score = Num(30)
                /\ SafetyOf(side).recommendation = Text(WeRecommendProceeding)
                /\ RiskOf(side).complication_probability = Num(10)
                /\ ComparisonSideOf(side).overall_safety_score = Num(80))
                  => OutcomeOf(side).confidence = Num(97)

\* The quality-of-life formula of C18; Default(_, _) says when a default
\* replaces a field.
claimedQualityOfLife(Default(_, _), surgical, chronic, comparison) ==
    LET recoveryDays == Default(surgical.recovery_time_days, Num(30)).v
        qol == Default(comparison.effectiveness_score, Num(75)).v * 100
                 - Default(surgical.invasiveness_score, Num(50)).v * 12
                 - Default(chronic.medication_burden_score, Num(50)).v * 10
                 + claimedAdjustment(lifestyleImpact, chronic.lifestyle_impact) * 100
                 + claimedAdjustment(stabilityBonus, chronic.disease_stability) * 100
                 - (IF recoveryDays > 60 THEN 8 ELSE IF recoveryDays > 30 THEN 4 ELSE 0) * 100
    IN  Num(Max(40, Min(100, MathRound(qol, 100))))

\* C16: a present 0 is used as 0: effectiveness_score 0 gives the base 0,
\* severity_score 0 adds 50 to the confidence, complication_probability 0
\* subtracts nothing from it and gives the complications risk score 0.
C16_ZeroIsNotAbsent ==
    Returned =>
        \A side \in TreatmentSides :
            /\ (/\ ComparisonSideOf(side).effectiveness_score = Num(0)
                /\ ChronicOf(side).lifestyle_impact \notin ObjectPrototypeKeys
                /\ ChronicOf(side).disease_stability \notin ObjectPrototypeKeys)
                  => OutcomeOf(side).quality_of_life =
                        claimedQualityOfLife(Nullish, SurgicalOf(side), ChronicOf(side),
                                             ComparisonSideOf(side))
            /\ (SafetyOf(side).severity_score = Num(0)
                  \/ RiskOf(side).complication_probability = Num(0))
                  => OutcomeOf(side).confidence =
                        claimedConfidence(SafetyOf(side), RiskOf(side), ComparisonSideOf(side))
            /\ RiskOf(side).complication_probability = Num(0)
                  => (IF side = "a" THEN result.model.risks.complications.treatmentA
                      ELSE result.model.risks.complications.treatmentB) = Num(0)

\* Stability factors as C17 states them, in halves.
claimedStabilityFactor(diseaseStability) ==
    CASE diseaseStability = "excellent" -> 3
      [] diseaseStability = "good" -> 2
      [] diseaseStability = "fair" -> 1
      [] diseaseStability = "poor" -> 0
      [] OTHER -> 1

recoveryMonthsOf(side) == MathCeil(Or(SurgicalOf(side).recovery_time_days, Num(30)).v, 30)

\* C17: at every sampled month i >= recoveryMonths the score is
\* initialQol + stabilityFactor * (i - recoveryMonths), rounded and clamped,
\* with factor 1.5 / 1.0 / 0.5 / 0.0 for excellent / good / fair / poor and
\* 0.5 otherwise; for 'poor' it is flat.
C17_PostRecoveryDrift ==
    Returned =>
        \A side \in TreatmentSides :
            IsNum(ComparisonSideOf(side).effectiveness_score) =>
                \A n \in DOMAIN TimelineOf(side) :
                    LET i == TimelineOf(side)[n].month
                        past == i - recoveryMonthsOf(side)
                    IN  past >= 0 =>
                          TimelineOf(side)[n].score =
                            Num(Max(40, Min(100,
                              MathRound(2 * ComparisonSideOf(side).effectiveness_score.v
                                + claimedStabilityFactor(ChronicOf(side).disease_stability)
                                    * past, 2))))

\* C18: the quality of life is clamp(round(base - invasiveness*1.2 -
\* medication burden + lifestyle adjustment + stability adjustment - recovery
\* penalty), 40, 100), unknown or missing enum strings contributing 0.  The
\* defaults are applied as the code applies them.
C18_QolFormula ==
    Returned =>
        \A side \in TreatmentSides :
            OutcomeOf(side).quality_of_life =
                claimedQualityOfLife(Or, SurgicalOf(side), ChronicOf(side),
                                     ComparisonSideOf(side))

\* The classifier as C19 states it.
claimedUncertainty(risk, safety) ==
    LET start == IF safety.safety_status = "safe" THEN 1
                 ELSE IF safety.safety_status = "caution" THEN 2 ELSE 3
        prob == risk.complication_probability
        byProb == IF IsNum(prob) /\ prob.v > 25 THEN 1
                  ELSE IF IsNum(prob) /\ prob.v < 10 THEN -1 ELSE 0
        level == IF risk.readmission_risk = NoString THEN ""
                 ELSE ToLowerCase(risk.readmission_risk)
        byRisk == IF level \in {"high", "very-high"} THEN 1
                  ELSE IF level = "low" THEN -1 ELSE 0
        ordinal == Max(1, Min(3, start + byProb + byRisk))
    IN  IF ordinal = 1 THEN "Low" ELSE IF ordinal = 2 THEN "Medium" ELSE "High"

\* C19: the uncertainty starts at 1 / 2 / 3 by safety_status, goes up by 1
\* for every complication_probability > 0.25 and down by 1 for every one
\* < 0.10, up by 1 for a high or very-high readmission_risk and down by 1 for
\* a low one, and is clamped to [1,3] and mapped to Low, Medium, High.
C19_Uncertainty ==
    Returned =>
        \A side \in TreatmentSides :
            OutcomeOf(side).uncertainty = claimedUncertainty(RiskOf(side), SafetyOf(side))


----------------------------------------------------------------------------
(* C13, C14, C20: the explanation                                          *)

ReasoningOfResult == result.model.explanation.reasoning

AgentsOfResult == result.model.explanation.agents

\* The two insights an entry of explanation.agents is combined from.
InsightOf(key, side) ==
    CASE key = "surgical" -> SurgicalOf(side).insights
      [] key = "chronic_care" -> ChronicOf(side).insights
      [] key = "risk" -> RiskOf(side).insights

AgentKeys == {"surgical", "chronic_care", "risk"}

fallbackLabel(key) ==
    CASE key = "surgical" -> SURGICAL_ANALYSIS
      [] key = "chronic_care" -> CHRONIC_CARE_ANALYSIS
      [] key = "risk" -> RISK_ASSESSMENT

\* C13: the reasoning list is the treatment-A summary line, the treatment-B
\* summary line, the safety warning for A if there is one, the safety warning
\* for B if there is one, then the lines extracted from the final notes, with
\* empty entries removed and cut to the first 5: it never has more than 5
\* entries and keeps the candidates' order.
C13_ReasoningOrder ==
    Returned =>
        LET candidates ==
                << summaryLine(SUMMARY_A_PREFIX, ComparisonSideOf("a")),
                   summaryLine(SUMMARY_B_PREFIX, ComparisonSideOf("b")) >>
                  \o safetyWarning(SAFETY_A_PREFIX, SafetyOf("a"))
                  \o safetyWarning(SAFETY_B_PREFIX, SafetyOf("b"))
                  \o extractReasoningPoints(raw.final_notes)
            kept == FilterNonEmpty(candidates)
        IN  /\ Len(ReasoningOfResult) <= 5
            /\ Len(ReasoningOfResult) = Min(5, Len(kept))
            /\ \A n \in 1..Len(ReasoningOfResult) : ReasoningOfResult[n] = kept[n]

\* Two summary lines, two safety warnings and three final-notes lines: seven
\* candidates, of which the first five are returned.
C13_Witness ==
    /\ Returned
    /\ Len(safetyWarning(SAFETY_A_PREFIX, SafetyOf("a"))) = 1
    /\ Len(safetyWarning(SAFETY_B_PREFIX, SafetyOf("b"))) = 1
    /\ Len(extractReasoningPoints(raw.final_notes)) = 3
    /\ Len(ReasoningOfResult) = 5
    /\ ReasoningOfResult[5] = extractReasoningPoints(raw.final_notes)[1]

\* C14: for each of surgical, chronic_care and risk: with both insights
\* present (non-empty) the entry is "Treatment A: " + A + two line breaks +
\* "Treatment B: " + B; with exactly one present it is that insight; with
\* neither it is the fallback label followed by " pending"; the entry is
\* never the empty string.
C14_CombineInsights ==
    Returned =>
        \A key \in AgentKeys :
            LET a == InsightOf(key, "a")
                b == InsightOf(key, "b")
                out == AgentsOfResult[key]
            IN  /\ (TruthyText(a) /\ TruthyText(b)) =>
                      out = TREATMENT_A_PREFIX \o a.text \o <<"\n", "\n">>
                              \o SubSeq(TREATMENT_B_PREFIX, 3, Len(TREATMENT_B_PREFIX))
                              \o b.text
                /\ (TruthyText(a) /\ ~TruthyText(b)) => out = a.text
                /\ (~TruthyText(a) /\ TruthyText(b)) => out = b.text
                /\ (~TruthyText(a) /\ ~TruthyText(b)) => out = fallbackLabel(key) \o PENDING
                /\ out # <<>>

\* One payload in which the three entries take the three forms.
C14_Witness ==
    /\ Returned
    /\ TruthyText(InsightOf("surgical", "a")) /\ TruthyText(InsightOf("surgical", "b"))
    /\ ~TruthyText(InsightOf("chronic_care", "a")) /\ TruthyText(InsightOf("chronic_care", "b"))
    /\ ~TruthyText(InsightOf("risk", "a")) /\ ~TruthyText(InsightOf("risk", "b"))
    /\ AgentsOfResult["surgical"] # InsightA
    /\ AgentsOfResult["chronic_care"] = InsightB
    /\ AgentsOfResult["risk"] = RISK_ASSESSMENT \o PENDING

\* A bullet marker as the claim describes it: -, U+2022 or * followed by
\* whitespace.
claimedStripBullet(line) ==
    IF Len(line) >= 2 /\ line[1] \in BulletMarkers /\ line[2] \in Whitespace
    THEN TrimStart(Tail(line))
    ELSE line

claimedReasoningPoints(finalNotes) ==
    IF ~finalNotes.defined THEN <<>>
    ELSE LET kept == Slice(FilterKeepLine(SplitLines(finalNotes.text)), 3)
         IN  [n \in 1..Len(kept) |-> Trim(claimedStripBullet(kept[n]))]

\* C20: the final notes are split on line breaks; blank lines, lines with
\* "====", "CLINICAL" or "WARNING" and lines of length <= 20 are dropped; the
\* first 3 survivors are kept in order, each with a leading bullet marker (-,
\* U+2022 or * followed by whitespace) stripped and trimmed; absent notes give
\* no lines; there are never more than 3.  Stated on the reasoning list of a
\* payload without safety warnings, where the extracted lines follow the two
\* summary lines.
C20_ReasoningExtractor ==
    (/\ Returned
     /\ safetyWarning(SAFETY_A_PREFIX, SafetyOf("a")) = <<>>
     /\ safetyWarning(SAFETY_B_PREFIX, SafetyOf("b")) = <<>>) =>
        LET extracted == SubSeq(ReasoningOfResult, 3, Len(ReasoningOfResult))
        IN  /\ Len(extracted) <= 3
            /\ extracted = FilterNonEmpty(claimedReasoningPoints(raw.final_notes))


----------------------------------------------------------------------------
(* C21: the recovery ramp                                                  *)

\* recoveryMonths as C21 states it: ceil(recovery_time_days / 30), 30 days
\* when the field is absent.
claimedRecoveryMonths(side) ==
    MathCeil(Nullish(SurgicalOf(side).recovery_time_days, Num(30)).v, 30)

\* round(initialQol * (0.6 + (i / recoveryMonths) * 0.4)) clamped to [40,100]
claimedRamp(initialQol, i, recoveryMonths) ==
    Num(Max(40, Min(100, MathRound(initialQol * (6 * recoveryMonths + 4 * i),
                                   10 * recoveryMonths))))

\* C21: at every sampled month i < recoveryMonths = ceil(recovery_time_days
\* / 30) (30 days by default) the score is initialQol * (0.6 + (i /
\* recoveryMonths) * 0.4), rounded and clamped; at month 0 it is 60% of
\* initialQol; over the recovery window it does not decrease and does not
\* exceed initialQol (or the floor 40 the clamp imposes).
C21_RecoveryRamp ==
    Returned =>
        \A side \in TreatmentSides :
            IsNum(ComparisonSideOf(side).effectiveness_score) =>
                LET initialQol == ComparisonSideOf(side).effectiveness_score.v
                    recoveryMonths == claimedRecoveryMonths(side)
                    timeline == TimelineOf(side)
                IN  \A n \in DOMAIN timeline :
                        timeline[n].month < recoveryMonths =>
                            /\ timeline[n].score
                                   = claimedRamp(initialQol, timeline[n].month, recoveryMonths)
                            /\ timeline[n].month = 0 =>
                                   timeline[n].score
                                       = Num(Max(40, Min(100, MathRound(6 * initialQol, 10))))
                            /\ timeline[n].score.v <= Max(40, Min(100, initialQol))
                            /\ \A m \in DOMAIN timeline :
                                   m < n => timeline[m].score.v <= timeline[n].score.v

\* A recovery window that holds months 0, 3 and 6, with scores that rise
\* strictly from 60% of initialQol and stay below it.
C21_Witness ==
    /\ Returned
    /\ IsNum(ComparisonSideOf("a").effectiveness_score)
    /\ claimedRecoveryMonths("a") > 6
    /\ TimelineOf("a")[1].score
           = Num(MathRound(6 * ComparisonSideOf("a").effectiveness_score.v, 10))
    /\ TimelineOf("a")[1].score.v > 40
    /\ TimelineOf("a")[1].score.v < TimelineOf("a")[2].score.v
    /\ TimelineOf("a")[2].score.v < TimelineOf("a")[3].score.v
    /\ TimelineOf("a")[3].score.v < ComparisonSideOf("a").effectiveness_score.v


----------------------------------------------------------------------------
(* C22, C24: the risks block and the delay impact                          *)

\* The readmission score as C22 states it.
claimedReadmissionScore(readmission_risk) ==
    LET key == IF readmission_risk = NoString THEN NoString
               ELSE ToLowerCase(readmission_risk)
    IN  CASE key = "low" -> 25
          [] key = "moderate" -> 50
          [] key = "high" -> 75
          [] key = "very-high" -> 90
          [] OTHER -> 50

\* C22: the readmission risk score is 25 / 50 / 75 / 90 for low / moderate /
\* high / very-high, matched on the lowercased readmission_risk, and 50 when
\* readmission_risk is missing or unrecognised or the risk agent reports
\* nothing on the treatment.
C22_ReadmissionScore ==
    Returned =>
        /\ result.model.risks.readmission.treatmentA
               = Num(claimedReadmissionScore(RiskOf("a").readmission_risk))
        /\ result.model.risks.readmission.treatmentB
               = Num(claimedReadmissionScore(RiskOf("b").readmission_risk))

RiskCategories == <<"readmission", "complications", "deterioration">>

\* C24: risk_increases has exactly 3 entries, Readmission, Complications,
\* Deterioration in this order; each change is the absolute difference of the
\* two treatments' entries of the risks block, so it is a number that is
\* never negative and is 0 exactly when the two entries are equal.
C24_RiskIncreases ==
    Returned =>
        LET increases == result.model.delay_impact.risk_increases
        IN  /\ Len(increases) = 3
            /\ [n \in 1..3 |-> increases[n].category]
                   = <<"Readmission", "Complications", "Deterioration">>
            /\ \A n \in 1..3 :
                   LET entry == result.model.risks[RiskCategories[n]]
                   IN  /\ IsNum(increases[n].change)
                       /\ increases[n].change.v >= 0
                       /\ IsNum(entry.treatmentA) /\ IsNum(entry.treatmentB)
                       /\ increases[n].change.v
                              = (IF entry.treatmentA.v >= entry.treatmentB.v
                                 THEN entry.treatmentA.v - entry.treatmentB.v
                                 ELSE entry.treatmentB.v - entry.treatmentA.v)
                       /\ (increases[n].change.v = 0) <=> (entry.treatmentA = entry.treatmentB)


----------------------------------------------------------------------------
(* C23: the safety-warning lines                                           *)

ContraindicationsOf(side) == SafetyOf(side).identified_contraindications

HasContraindications(side) ==
    ContraindicationsOf(side).defined /\ Len(ContraindicationsOf(side).items) > 0

StartsWith(line, prefix) ==
    Len(line) >= Len(prefix) /\ SubSeq(line, 1, Len(prefix)) = prefix

\* The warning as C23 states it: the first 2 contraindications joined by "; ".
claimedWarning(prefix, side) ==
    LET items == ContraindicationsOf(side).items
    IN  prefix \o (IF Len(items) = 1 THEN items[1]
                   ELSE items[1] \o <<";", " ">> \o items[2])

\* C23: the reasoning list holds a safety-warning line for a treatment if
\* and only if that treatment's identified_contraindications is a non-empty
\* list; the line names only the first 2 contraindications, joined by "; ";
\* the line for A comes right after the two summary lines and before the
\* line for B.
C23_SafetyWarnings ==
    Returned =>
        LET r == ReasoningOfResult
            positionA == 3
            positionB == IF HasContraindications("a") THEN 4 ELSE 3
        IN  /\ HasContraindications("a") <=>
                   \E n \in DOMAIN r : StartsWith(r[n], SAFETY_A_PREFIX)
            /\ HasContraindications("b") <=>
                   \E n \in DOMAIN r : StartsWith(r[n], SAFETY_B_PREFIX)
            /\ HasContraindications("a") =>
                   /\ Len(r) >= positionA
                   /\ r[positionA] = claimedWarning(SAFETY_A_PREFIX, "a")
            /\ HasContraindications("b") =>
                   /\ Len(r) >= positionB
                   /\ r[positionB] = claimedWarning(SAFETY_B_PREFIX, "b")

\* Treatment A has three contraindications and B has two: A's line names
\* two of the three and stands before B's.
C23_Witness ==
    /\ Returned
    /\ HasContraindications("a") /\ Len(ContraindicationsOf("a").items) = 3
    /\ HasContraindications("b")
    /\ ReasoningOfResult[3] = SAFETY_A_PREFIX \o Allergy \o SEMICOLON \o Renal
    /\ ReasoningOfResult[4] = SAFETY_B_PREFIX \o Renal \o SEMICOLON \o Anticoagulant


----------------------------------------------------------------------------
(* C29: the risk values of one timeline                                    *)

\* C29: within one timeline the risk does not decrease from one sampled
\* month to the next whenever invasiveness_score is not negative, and once a
\* point's risk is 90 every later point's risk is 90.
C29_RiskMonotonic ==
    Returned =>
        \A side \in TreatmentSides :
            LET timeline == TimelineOf(side)
                invasiveness == SurgicalOf(side).invasiveness_score
            IN  (IsNum(invasiveness) => invasiveness.v >= 0) =>
                    \A n \in DOMAIN timeline : \A m \in DOMAIN timeline :
                        m < n =>
                            /\ timeline[m].risk <= timeline[n].risk
                            /\ timeline[m].risk = 90 => timeline[n].risk = 90

\* A timeline whose risk rises strictly, reaches 90 before the last point and
\* stays there.
C29_Witness ==
    /\ Returned
    /\ IsNum(SurgicalOf("a").invasiveness_score)
    /\ TimelineOf("a")[1].risk < TimelineOf("a")[2].risk
    /\ TimelineOf("a")[2].risk < TimelineOf("a")[3].risk
    /\ \E n \in 4..6 : TimelineOf("a")[n].risk = 90
    /\ TimelineOf("a")[7].risk = 90


----------------------------------------------------------------------------
(* OutcomeCards: which card carries the RECOMMENDED badge                  *)

\* x >= y on JS numbers: false when either is NaN.
GreaterOrEqual(x, y) == IsNum(x) /\ IsNum(y) /\ x.v >= y.v

\* x > y on JS numbers: false when either is NaN.
Greater(x, y) == IsNum(x) /\ IsNum(y) /\ x.v > y.v

\* OutcomeCards with >= in the isPrimary of both cards
OutcomeCards_bothInclusive(outcomeA, outcomeB) ==
    [isPrimaryA |-> GreaterOrEqual(outcomeA.quality_of_life, outcomeB.quality_of_life),
     isPrimaryB |-> GreaterOrEqual(outcomeB.quality_of_life, outcomeA.quality_of_life)]

\* The isPrimary prop of the two cards; a card shows RECOMMENDED when it is
\* true.
OutcomeCards(outcomeA, outcomeB) ==
    [isPrimaryA |-> GreaterOrEqual(outcomeA.quality_of_life, outcomeB.quality_of_life),
     isPrimaryB |-> Greater(outcomeB.quality_of_life, outcomeA.quality_of_life)]

\* The cards rendered for the model the normalizer returned.
CardsOfResult == OutcomeCards(result.model.outcome_a, result.model.outcome_b)

\* C30: when both outcomes have a numeric quality_of_life exactly one card is
\* marked RECOMMENDED: A's when outcome_a.quality_of_life >=
\* outcome_b.quality_of_life (ties go to A), B's otherwise.
C30_ExactlyOneRecommended ==
    (/\ Returned
     /\ IsNum(result.model.outcome_a.quality_of_life)
     /\ IsNum(result.model.outcome_b.quality_of_life)) =>
        LET qolA == result.model.outcome_a.quality_of_life.v
            qolB == result.model.outcome_b.quality_of_life.v
        IN  /\ CardsOfResult.isPrimaryA # CardsOfResult.isPrimaryB
            /\ CardsOfResult.isPrimaryA <=> qolA >= qolB
            /\ CardsOfResult.isPrimaryB <=> qolA < qolB

\* A tie between two different payload sides: only A is marked.
C30_Witness ==
    /\ Returned
    /\ IsNum(result.model.outcome_a.quality_of_life)
    /\ result.model.outcome_a.quality_of_life = result.model.outcome_b.quality_of_life
    /\ SurgicalOf("a") # SurgicalOf("b")
    /\ CardsOfResult.isPrimaryA
    /\ ~CardsOfResult.isPrimaryB


----------------------------------------------------------------------------
(* App: handleSimulation and checkBackendHealth                            *)

MaxRequests == 2
MaxHealthChecks == 2

NoData == [kind |-> "null"]
NoError == [kind |-> "null"]
ErrorOf(message) == [kind |-> "error", message |-> message]

\* What PatientForm.handleSubmit passes to onSimulate; the three text fields
\* are required, the horizon is one of the three buttons.
FormData(summary, a, b, horizon) ==
    [patient_summary |-> summary, treatment_a |-> a, treatment_b |-> b,
     simulation_horizon |-> horizon]

Forms ==
    {FormData("68-year-old male with Type 2 diabetes", "Medication", "Bypass surgery", 90),
     FormData("54-year-old female with knee arthrosis", "Physiotherapy", "Knee replacement", 30)}

\* response.data of a POST /simulate that was answered
ResponsePayloads ==
    {NullPayload,
     Payload(BaseSide, BaseSide),
     Payload(EmptySide, BaseSide),
     [Payload(BaseSide, BaseSide) EXCEPT
         !.comparison = ComparisonOf(NoComparisonSide, BaseComparisonSide)]}

\* The ways the awaited axios.post settles.
Responses ==
    {[kind |-> "data", data |-> payload] : payload \in ResponsePayloads}
      \cup {[kind |-> "ECONNABORTED"], [kind |-> "response"], [kind |-> "request"]}

\* err.message of what transformBackendResponse throws
messageOf(e) ==
    IF e = InvalidStructure THEN "Invalid backend response structure"
    ELSE "Cannot read properties of undefined"

TIMEOUT_MESSAGE ==
    "Request timeout. The AI analysis is taking longer than expected. Please try again."
BACKEND_ERROR == "Backend error: "
CANNOT_CONNECT ==
    "Cannot connect to backend. Please ensure the FastAPI server is running on http://localhost:8000"
ERROR_PREFIX == "Error: "

\* The points of a mock timeline: for (i = 0; i <= horizon; i += ceil(horizon / 6))
mockTimelineLength(horizon) == horizon \div MathCeil(horizon, 6) + 1

\* generateMockData: the names come from the form, the outcomes are fixed;
\* the timeline scores are Math.random draws and are not held here.
generateMockData(formData) ==
    [kind |-> "mock",
     treatment_a |-> formData.treatment_a,
     treatment_b |-> formData.treatment_b,
     outcome_a |-> [quality_of_life |-> Num(72), readmission_risk |-> "Medium",
                    confidence |-> Num(78), uncertainty |-> "Medium"],
     outcome_b |-> [quality_of_life |-> Num(85), readmission_risk |-> "Low",
                    confidence |-> Num(88), uncertainty |-> "Low"],
     timelineLength |-> mockTimelineLength(formData.simulation_horizon)]

\* transformedData with the treatment names of the form
withTreatmentNames(model, formData) ==
    [kind |-> "model",
     model |-> [model EXCEPT !.treatment_a = formData.treatment_a,
                             !.treatment_b = formData.treatment_b]]

\* the submit button without `disabled`
submitEnabled_always(state) == TRUE

\* PatientForm: <button type="submit" disabled={isLoading}>
submitEnabled(state) == ~state.isLoading

\* the mock fallback deciding on the backendStatus of the latest render
useMockData_currentStatus(request, state) == state.backendStatus = "offline"

\* if (backendStatus === 'offline'): the backendStatus the handler closed over
useMockData(request, state) == request.backendStatus = "offline"

\* a handler without the finally block
finally_skipped(state) == state

\* finally { setIsLoading(false) }
finally(state) == [state EXCEPT !.isLoading = FALSE]

\* The catch block of handleSimulation.
catch(err, request, state) ==
    LET withError ==
            CASE err.kind = "ECONNABORTED" ->
                    [state EXCEPT !.error = ErrorOf(<<TIMEOUT_MESSAGE>>)]
              [] err.kind = "response" ->
                    [state EXCEPT !.error = ErrorOf(<<BACKEND_ERROR, "Internal Server Error">>)]
              [] err.kind = "request" ->
                    [state EXCEPT !.error = ErrorOf(<<CANNOT_CONNECT>>),
                                  !.backendStatus = "offline"]
              [] OTHER ->
                    [state EXCEPT !.error = ErrorOf(<<ERROR_PREFIX, err.message>>)]
    IN  IF useMockData(request, state)
        THEN [withError EXCEPT !.simulationData = generateMockData(request.formData)]
        ELSE withError

\* handleSimulation from the settling of the awaited post to its end.
settle(response, request, state) ==
    IF response.kind = "data"
    THEN LET transformedData == transformBackendResponse(response.data)
         IN  IF transformedData.status = "returned"
             THEN finally([state EXCEPT
                     !.simulationData = withTreatmentNames(transformedData.model,
                                                           request.formData),
                     !.backendStatus = "online"])
             ELSE finally(catch([kind |-> "thrown", message |-> messageOf(transformedData.error)],
                                request, state))
    ELSE finally(catch(response, request, state))

RemoveAt(list, n) == SubSeq(list, 1, n - 1) \o SubSeq(list, n + 1, Len(list))

AppInit ==
    /\ app = AppMounted
    /\ raw = NullPayload
    /\ result = NoResult
    /\ pc = "app"
    /\ view = NotRendered

\* handleSimulation up to the await: the form is submitted.
handleSimulation(formData) ==
    /\ submitEnabled(app)
    /\ Len(app.requests) < MaxRequests
    /\ app' = [app EXCEPT
                 !.isLoading = TRUE,
                 !.error = NoError,
                 !.requests = Append(@, [formData |-> formData,
                                         backendStatus |-> app.backendStatus])]
    /\ UNCHANGED <<raw, result, pc, view>>

\* The awaited post of request n settles and the handler runs to its end.
handleSimulationSettled(n, response) ==
    /\ n \in 1..Len(app.requests)
    /\ app' = settle(response, app.requests[n],
                     [app EXCEPT !.requests = RemoveAt(@, n)])
    /\ UNCHANGED <<raw, result, pc, view>>

\* checkBackendHealth from the settling of the awaited get to its end.
checkBackendHealthSettled(status) ==
    /\ app.healthChecks > 0
    /\ app' = [app EXCEPT !.backendStatus = status, !.healthChecks = @ - 1]
    /\ UNCHANGED <<raw, result, pc, view>>

\* The "Retry connection" button, rendered with an error while offline.
RetryConnection ==
    /\ app.error # NoError
    /\ app.backendStatus = "offline"
    /\ app.healthChecks < MaxHealthChecks
    /\ app' = [app EXCEPT !.healthChecks = @ + 1]
    /\ UNCHANGED <<raw, result, pc, view>>

Submit == \E formData \in Forms : handleSimulation(formData)

Settle == \E n \in 1..MaxRequests : \E response \in Responses : handleSimulationSettled(n, response)

HealthSettled == \E status \in {"online", "degraded", "offline"} : checkBackendHealthSettled(status)

AppNext == Submit \/ Settle \/ HealthSettled \/ RetryConnection

AppSpec == AppInit /\ [][AppNext]_vars

\* axios settles every post within its 60 s timeout, and every get within 3 s.
AppLiveSpec == AppSpec /\ WF_vars(Settle) /\ WF_vars(HealthSettled)


----------------------------------------------------------------------------
(* C25, C26, C27: one simulation request at a time                         *)

\* C25: at most one simulation request is outstanding; while one is awaited
\* isLoading is true and the form cannot be submitted, so no second
\* handleSimulation starts before the first has completed.
C25_OneOutstandingRequest ==
    /\ Len(app.requests) <= 1
    /\ Len(app.requests) = 1 => (app.isLoading /\ ~ENABLED Submit)

\* A second request is awaited while the model of a first one is held.
C25_Witness ==
    /\ Len(app.requests) = 1
    /\ app.isLoading
    /\ app.simulationData.kind = "model"

\* C26: simulationData changes only when a request completes.  A successful
\* request leaves the newly normalized model with the form's treatment names
\* and a null error; a failed one leaves an error message and replaces
\* simulationData by mock data only when the backendStatus the handler saw at
\* its invocation was 'offline', otherwise simulationData is kept.
C26_HeldModel ==
    [][IF Len(app'.requests) >= Len(app.requests)
       THEN app'.simulationData = app.simulationData
       ELSE LET request == app.requests[1]
            IN  \/ /\ app'.error = NoError
                   /\ \E payload \in ResponsePayloads :
                         /\ transformBackendResponse(payload).status = "returned"
                         /\ app'.simulationData =
                              [kind |-> "model",
                               model |-> [transformBackendResponse(payload).model EXCEPT
                                            !.treatment_a = request.formData.treatment_a,
                                            !.treatment_b = request.formData.treatment_b]]
                \/ /\ app'.error.kind = "error"
                   /\ app'.simulationData =
                        IF request.backendStatus = "offline"
                        THEN generateMockData(request.formData)
                        ELSE app.simulationData]_vars

\* A request that was started before the backend was found offline has
\* failed: the error is shown and the model of the earlier request is kept.
C26_Witness ==
    /\ ~app.isLoading
    /\ app.error.kind = "error"
    /\ app.backendStatus = "offline"
    /\ app.simulationData.kind = "model"

\* C27: handleSimulation sets isLoading to true and error to null when it
\* starts, isLoading is false when the request has completed in whatever
\* way, and every request does complete: isLoading never stays true.
C27_LoadingCleared ==
    /\ [][Len(app'.requests) > Len(app.requests)
             => (app'.isLoading /\ app'.error = NoError)]_vars
    /\ [][Len(app'.requests) < Len(app.requests) => ~app'.isLoading]_vars
    /\ (app.isLoading ~> ~app.isLoading)

\* A request has completed with a normalization error and the flag is clear.
C27_Witness ==
    /\ ~app.isLoading
    /\ app.requests = <<>>
    /\ app.error = ErrorOf(<<ERROR_PREFIX, "Invalid backend response structure">>)


----------------------------------------------------------------------------
(* HorizontalTimeline: the reveal counter                                  *)

MaxSupplied == 8

\* The lengths of the timelines App hands to HorizontalTimeline: those of
\* generateTimelineData and of generateMockData for the three horizons of
\* the form.
TimelineLengths ==
    {Len(generateTimelineData(BaseSurgical, BaseChronic, BaseRisk, BaseComparisonSide))}
      \cup {mockTimelineLength(horizon) : horizon \in {30, 90, 180}}

\* an effect whose cleanup is not run
cleanup_none(timers) == timers

\* return () => clearInterval(timer): the interval of the previous effect
\* is cleared.
cleanup(timers) == {}

TimelineInit ==
    /\ view = NotRendered
    /\ app = AppMounted
    /\ raw = NullPayload
    /\ result = NoResult
    /\ pc = "timeline"

\* App renders the component with a new timelineData array; the state is
\* kept and the effect on [timelineData] is scheduled.
Render(length) ==
    /\ ~view.effectPending
    /\ view.supplied < MaxSupplied
    /\ view' = [view EXCEPT !.timelineData = view.supplied + 1,
                            !.supplied = @ + 1,
                            !.length = length,
                            !.effectPending = TRUE]
    /\ UNCHANGED <<raw, result, pc, app>>

\* The effect runs: the previous cleanup, then the body.
RunEffect ==
    /\ view.effectPending
    /\ view' = IF view.length > 0
               THEN [view EXCEPT
                       !.effectPending = FALSE,
                       !.visibleSteps = 0,
                       !.timers = cleanup(@) \cup
                                    {[timelineData |-> view.timelineData,
                                      length |-> view.length]}]
               ELSE [view EXCEPT !.effectPending = FALSE, !.timers = cleanup(@)]
    /\ UNCHANGED <<raw, result, pc, app>>

\* An interval fires: setVisibleSteps(prev => ...) with the length the
\* interval's closure holds.  A pending effect is run before React applies
\* the update, so a tick changes the counter only when none is pending.
Tick(timer) ==
    /\ timer \in view.timers
    /\ ~view.effectPending
    /\ view' = IF view.visibleSteps >= timer.length
               THEN [view EXCEPT !.timers = @ \ {timer}]
               ELSE [view EXCEPT !.visibleSteps = @ + 1]
    /\ UNCHANGED <<raw, result, pc, app>>

Supply == \E length \in TimelineLengths : Render(length)

Ticks == \E timer \in view.timers : Tick(timer)

TimelineNext == Supply \/ RunEffect \/ Ticks

TimelineSpec == TimelineInit /\ [][TimelineNext]_vars

\* Scheduled effects run and live intervals keep firing.
TimelineLiveSpec == TimelineSpec /\ WF_vars(RunEffect) /\ WF_vars(Ticks)

\* C28: when a non-empty timelineData is supplied visibleSteps restarts at
\* 0; every other change of it is +1; it never exceeds timelineData.length;
\* with ticks firing it reaches timelineData.length, and from then on it does
\* not change until timelineData changes; no interval of an earlier
\* timelineData is alive once the effect for the new one has run, so none
\* advances the counter.
C28_RevealCounter ==
    /\ [][(view.effectPending /\ ~view'.effectPending /\ view.length > 0)
             => view'.visibleSteps = 0]_vars
    /\ (view.effectPending ~> ~view.effectPending)
    /\ [][view'.visibleSteps # view.visibleSteps =>
             \/ view'.visibleSteps = view.visibleSteps + 1
             \/ view.effectPending /\ view'.visibleSteps = 0]_vars
    /\ [](view.timelineData # 0 => view.visibleSteps <= view.length)
    /\ \A data \in 1..MaxSupplied :
          (view.timelineData = data /\ ~view.effectPending)
             ~> \/ view.timelineData # data
                \/ ~view.effectPending /\ view.visibleSteps = view.length
    /\ [][(~view.effectPending /\ view.visibleSteps = view.length)
             => view'.visibleSteps = view.visibleSteps]_vars
    /\ [](~view.effectPending =>
             \A timer \in view.timers : timer.timelineData = view.timelineData)
    /\ [][view'.visibleSteps = view.visibleSteps + 1 =>
             \E timer \in view.timers : timer.timelineData = view.timelineData]_vars

\* The second timelineData is being revealed by its own interval after the
\* first one was fully shown.
C28_Witness ==
    /\ view.timelineData = 2
    /\ ~view.effectPending
    /\ view.visibleSteps = 3
    /\ view.timers = {[timelineData |-> 2, length |-> view.length]}

====
